---- MODULE Spec2Model ----
(***************************************************************************)
(* Model of minimal_rs_advancedmode (src/main.cpp).  The file holds two    *)
(* programs with the same capture loop:                                    *)
(*   "toggle"  main.cpp:1-366    toggles auto exposure / ROI at runtime    *)
(*   "preset"  main.cpp:369-852  enables a visual preset, configures the   *)
(*                               emitter, laser power and depth control    *)
(*                               with retry loops, then runs the loop      *)
(* One behaviour of the model is one run of one of the two programs.  The  *)
(* RealSense SDK is an external collaborator: every SDK call is one step   *)
(* whose outcome (return / rs2::error, value read) is chosen               *)
(* nondeterministically.                                                   *)
(***************************************************************************)
EXTENDS Integers, Sequences, FiniteSets, TLC

----------------------------------------------------------------------------
(* Bounds of the model *)

\* loop iterations explored: wait_for_frames is not called once frames_got
\* has reached MaxFrames
MaxFrames == 3
\* capacity of the rolling window; stands for the literal 100 of
\* main.cpp:335 / main.cpp:819, scaled down so that eviction happens
WindowCap == 2
\* largest value of the visual preset option range explored
PresetMax == 2
\* laser power readbacks that differ from the maximum explored in a run
MaxMismatch == 1

----------------------------------------------------------------------------
(* Program constants *)

color_w == 960
color_h == 540
depth_w == 640
depth_h == 480
\* bytes of new unsigned char[color_w * color_h * 3] and of
\* new uint16_t[depth_w * depth_h]
colorbuf_capacity == color_w * color_h * 3
depthbuf_capacity == depth_w * depth_h * 2
\* a retry is made while tries <= RetryBudget (tries > 5 gives up)
RetryBudget == 5
InitialToggle == 3000
ToggleStep == 10000
\* settle delays of the toggle program's sweep, milliseconds
SleepAutoExposure == 3000
SleepRoi == 1000
SleepEmitter == 1000

----------------------------------------------------------------------------
(* Inputs *)

Variants == {"toggle", "preset"}

\* capabilities a sensor may advertise
AE == "auto_exposure"
EM == "emitter"
ROI == "roi"
LASER == "laser_power"
PRESET == "visual_preset"

\* kinds of sensor: one with every capability (stereo module), one without
\* the emitter (RGB camera), one without auto exposure and the ROI interface
Stereo == {AE, EM, ROI, LASER, PRESET}
Rgb == {AE, ROI}
EmOnly == {EM}

\* what dev.query_sensors() may return: every list of at most two sensors
SensorLists ==
  { << >>,
    << Stereo >>, << Rgb >>, << EmOnly >>,
    << Stereo, Stereo >>, << Stereo, Rgb >>, << Stereo, EmOnly >>,
    << Rgb, Stereo >>, << Rgb, Rgb >>, << Rgb, EmOnly >>,
    << EmOnly, Stereo >>, << EmOnly, Rgb >>, << EmOnly, EmOnly >> }

\* milliseconds the clock reading t2 may lie after the reading t1.
\* std::chrono::high_resolution_clock is std::chrono::system_clock in the
\* g++ build the Makefile describes: not steady, so a reading may lie
\* before an earlier one when the wall clock is stepped back (by 1 s), and a
\* later one catches up.
ClockDeltas == { -1000, 0, 1000, 3001 }

Frame(kind, w, h) == [kind |-> kind, w |-> w, h |-> h]
DepthOk == Frame("depth", depth_w, depth_h)
ColorOk == Frame("color", color_w, color_h)

\* frame sets wait_for_frames may deliver
FrameSets ==
  { << DepthOk, ColorOk >>,
    << ColorOk, DepthOk >>,
    << DepthOk >>,
    << ColorOk >>,
    << >>,
    << Frame("depth", depth_w - 1, depth_h), ColorOk >>,
    << Frame("depth", depth_w, depth_h + 1), ColorOk >>,
    << DepthOk, Frame("color", color_w - 1, color_h) >>,
    << DepthOk, Frame("color", color_w, color_h - 1) >> }

\* visual preset of the device: the option's range is 0..PresetMax, cur is
\* the value in use, want is the value whose description is the desired
\* preset (PresetMax + 1: no value of the range has that description)
PresetConfigs ==
  { [cur |-> 0, want |-> w] : w \in 0..(PresetMax + 1) }

----------------------------------------------------------------------------
VARIABLES
  variant,        \* which of the two programs runs
  sensors,        \* std::vector<rs2::sensor> sensors: capabilities of each
  preset,         \* device: visual preset option
  pc,             \* position of main
  got_sigint,     \* bool got_sigint
  started,        \* pipeline.start has returned
  stop_calls,     \* number of calls of stop(pipeline)
  stop_raised,    \* those of them made before pipeline.start: p.stop() raised
  exit_code,      \* process exit status, -1 while running
  cause,          \* why the process ended
  s,              \* index of the sensor of the running for (s : sensors)
  success, tries, \* preset program: retry loop state
  enabled_preset, \* preset program: bool enabled_preset
  now,            \* last reading of high_resolution_clock, plus sleeps
  t1, t2, t_since_toggle, next_toggle,
  frames_got,
  frames, fi, got_depth, got_color,
  depthbuf, colorbuf,   \* iteration whose payload the buffer holds, 0: zeroed
  ftimes, dur_sum, avg_dur, avg_fps,
  durs,           \* history: every duration pushed to ftimes, in order
  ops,            \* history: SDK calls of the current step, << op, result >>
  firings,        \* history: every firing of the tuning sweep, the clock
                  \* reading t2 it began at and the value of frames_got
  visited,        \* history: sensors whose loop body has ended, in order,
                  \* in the sweep of the last firing
  depth_bytes, color_bytes   \* bytes the last memcpy wrote to each buffer

vars ==
  << variant, sensors, preset, pc, got_sigint, started, stop_calls,
     stop_raised,
     exit_code, cause, s, success, tries, enabled_preset, now, t1, t2,
     t_since_toggle, next_toggle, frames_got, frames, fi, got_depth,
     got_color, depthbuf, colorbuf, ftimes, dur_sum, avg_dur, avg_fps,
     durs, ops, firings, visited, depth_bytes, color_bytes >>

\* groups of variables, for UNCHANGED
deviceVars == << variant, sensors, preset >>
procVars == << started, stop_calls, stop_raised, exit_code, cause >>
retryVars == << success, tries >>
clockVars == << now, t1, t2, t_since_toggle, next_toggle >>
frameVars == << frames, fi, got_depth, got_color, depthbuf, colorbuf >>
fpsVars == << ftimes, dur_sum, avg_dur, avg_fps, durs >>
traceVars == << firings, visited >>
copyVars == << depth_bytes, color_bytes >>

Init ==
  /\ variant \in Variants
  /\ sensors \in SensorLists
  \* the toggle program never reads the visual preset option
  /\ preset \in (IF variant = "preset" THEN PresetConfigs
                 ELSE {[cur |-> 0, want |-> 0]})
  /\ pc = "setup"
  /\ got_sigint = FALSE
  /\ started = FALSE
  /\ stop_calls = 0
  /\ stop_raised = 0
  /\ exit_code = -1
  /\ cause = "none"
  /\ s = 0
  /\ success = FALSE
  /\ tries = 0
  /\ enabled_preset = FALSE
  /\ now = 0
  /\ t1 = 0
  /\ t2 = 0
  /\ t_since_toggle = 0
  /\ next_toggle = 0
  /\ frames_got = 0
  /\ frames = << >>
  /\ fi = 0
  /\ got_depth = FALSE
  /\ got_color = FALSE
  /\ depthbuf = 0
  /\ colorbuf = 0
  /\ ftimes = << >>
  /\ dur_sum = 0
  /\ avg_dur = 0
  /\ avg_fps = 0
  /\ durs = << >>
  /\ ops = << >>
  /\ firings = << >>
  /\ visited = << >>
  /\ depth_bytes = 0
  /\ color_bytes = 0

----------------------------------------------------------------------------
(* Process exit *)

Has(i, cap) == cap \in sensors[i]

\* return code from main, or the handlers of main's function-try-block
Exit(code, why) ==
  /\ pc' = "done"
  /\ exit_code' = code
  /\ cause' = why

\* stop(pipeline); return code;   rs2::pipeline::stop() on a pipeline that
\* was not started raises rs2::error (wrong api call sequence), which
\* main's function-try-block handler turns into return 1
StopAndReturn(code, why) ==
  /\ stop_calls' = stop_calls + 1
  /\ stop_raised' = IF started THEN stop_raised ELSE stop_raised + 1
  /\ Exit(IF started THEN code ELSE 1, why)
  /\ UNCHANGED started

\* an rs2::error that no inner handler catches: the handler of main's
\* function-try-block prints it and returns 1, without a call of stop
Uncaught(why) ==
  /\ Exit(1, why)
  /\ UNCHANGED << started, stop_calls, stop_raised >>

----------------------------------------------------------------------------
(* Startup *)

\* signal handler registration, buffers, context, device discovery,
\* advanced mode
Setup ==
  /\ pc = "setup"
  /\ \/ \* devs.size() != 1
        /\ Exit(1, "setup")
     \/ \* an SDK call of the setup raises
        /\ Exit(1, "sdk")
     \/ /\ pc' = IF variant = "toggle" THEN "load_json" ELSE "preset"
        /\ UNCHANGED << exit_code, cause >>
  /\ UNCHANGED << traceVars, copyVars,
                  deviceVars, got_sigint, started, stop_calls,
                  stop_raised, s, retryVars,
                  enabled_preset, clockVars, frames_got, frameVars, fpsVars,
                  ops >>

\* toggle program: adv.load_json in its own try block, an error is printed
\* and ignored; then the stream configuration
LoadJson ==
  /\ pc = "load_json"
  /\ \E res \in {"ok", "error"} :
        /\ ops' = << << "load_json", res >> >>
        /\ pc' = "start"
  /\ UNCHANGED << traceVars, copyVars,
                  deviceVars, got_sigint, procVars, s, retryVars,
                  enabled_preset, clockVars, frames_got, frameVars, fpsVars >>

\* index of the first sensor that supports the visual preset option, 0: none
FirstPresetSensor ==
  IF \E i \in 1..Len(sensors) : Has(i, PRESET)
  THEN CHOOSE i \in 1..Len(sensors) :
         /\ Has(i, PRESET)
         /\ \A j \in 1..(i - 1) : ~Has(j, PRESET)
  ELSE 0

\* for (int i = (int)r.min; i < (int)r.max; ++i): the first value of the
\* range whose description is the desired preset, -1 when the loop ends
\* without one
FindPreset(lo, hi, want) ==
  IF \E i \in lo..(hi - 1) : i = want
  THEN CHOOSE i \in lo..(hi - 1) :
         /\ i = want
         /\ \A j \in lo..(i - 1) : j # want
  ELSE -1

\* preset program: "Enable desired preset"
SelectPreset ==
  /\ pc = "preset"
  /\ \/ \* an SDK call of the selection raises outside any try block
        /\ FirstPresetSensor # 0
        /\ Uncaught("sdk")
        /\ UNCHANGED << preset, enabled_preset >>
     \/ /\ LET found == FindPreset(0, PresetMax, preset.want)
               en == /\ FirstPresetSensor # 0
                     /\ \/ preset.cur = preset.want
                        \/ found # -1
           IN /\ enabled_preset' = en
              /\ preset' = IF en /\ preset.cur # preset.want
                           THEN [preset EXCEPT !.cur = found]
                           ELSE preset
              /\ IF en
                 THEN /\ pc' = "cfg_emitter_check"
                      /\ UNCHANGED << exit_code, cause >>
                 ELSE Exit(1, "preset")
        /\ UNCHANGED << started, stop_calls, stop_raised >>
  /\ s' = IF pc' = "done" THEN 0 ELSE 1
  /\ UNCHANGED << traceVars, copyVars,
                  variant, sensors, got_sigint, retryVars, clockVars,
                  frames_got, frameVars, fpsVars, ops >>

\* mutant of Exhausted: gives up one failure early
ExhaustedEarly(t) == t >= RetryBudget

\* a failed attempt is retried unless tries, already incremented, exceeds
\* the budget: if (tries > 5)
Exhausted(t) == t > RetryBudget

\* mutant of SuccessOnReturn: the assignment is missing
SuccessForgotten == FALSE

\* success = true; the last statement of the try block of a retry loop
SuccessOnReturn == TRUE

\* catch block of a retry loop: tries++; stop(pipeline); return 1; when the
\* budget is exceeded, else sleep 200 ms and go round again
RetryCatch ==
  /\ tries' = tries + 1
  /\ UNCHANGED success
  /\ IF Exhausted(tries + 1)
     THEN StopAndReturn(1, "retry")
     ELSE UNCHANGED << pc, procVars >>

\* end of the body of for (auto&& s : sensors): next sensor, or the depth
\* control step after the last one
AdvanceSensor ==
  IF s < Len(sensors)
  THEN /\ s' = s + 1
       /\ pc' = "cfg_emitter_check"
  ELSE /\ s' = 0
       /\ pc' = "cfg_depth_begin"

\* top of the body of for (auto&& s : sensors) (the sensor list is not
\* empty here: the preset was enabled on one of them);
\* if (s.supports(RS2_OPTION_EMITTER_ENABLED)) { success = false; tries = 0;
CfgEmitterCheck ==
  /\ pc = "cfg_emitter_check"
  /\ ops' = << >>
  /\ \/ /\ Uncaught("sdk")
        /\ UNCHANGED retryVars
     \/ /\ IF Has(s, EM)
           THEN /\ success' = FALSE
                /\ tries' = 0
                /\ pc' = "cfg_emitter"
           ELSE /\ pc' = "cfg_laser_check"
                /\ UNCHANGED retryVars
        /\ UNCHANGED procVars
  /\ UNCHANGED << traceVars, copyVars,
                  deviceVars, got_sigint, s, enabled_preset, clockVars,
                  frames_got, frameVars, fpsVars >>

\* one pass of while (!success) of a retry loop whose body is one SDK call:
\* the call returns (success = true, the loop ends, on to pc next) or raises
RetryPass(op, next) ==
  \E res \in {"ok", "error"} :
     /\ ops' = Append(ops, << op, res >>)
     /\ IF res = "ok"
        THEN /\ success' = SuccessOnReturn
             /\ pc' = IF SuccessOnReturn THEN next ELSE pc
             /\ UNCHANGED << tries, procVars >>
        ELSE RetryCatch

\* s.set_option(RS2_OPTION_EMITTER_ENABLED, 1.0f) in its retry loop
CfgEmitterTry ==
  /\ pc = "cfg_emitter"
  /\ RetryPass("cfg_emitter", "cfg_laser_check")
  /\ UNCHANGED << traceVars, copyVars,
                  deviceVars, got_sigint, s, enabled_preset, clockVars,
                  frames_got, frameVars, fpsVars >>

\* if (s.supports(RS2_OPTION_LASER_POWER)) { success = false; tries = 0;
CfgLaserCheck ==
  /\ pc = "cfg_laser_check"
  /\ ops' = << >>
  /\ \/ /\ Uncaught("sdk")
        /\ UNCHANGED << s, retryVars >>
     \/ /\ IF Has(s, LASER)
           THEN /\ success' = FALSE
                /\ tries' = 0
                /\ pc' = "cfg_laser"
                /\ s' = s
           ELSE /\ AdvanceSensor
                /\ UNCHANGED retryVars
        /\ UNCHANGED procVars
  /\ UNCHANGED << traceVars, copyVars,
                  deviceVars, got_sigint, enabled_preset, clockVars,
                  frames_got, frameVars, fpsVars >>

\* if (newval != laserpower.max) { stop(pipeline); return 1; } inside the
\* try block of the retry loop, before pipeline.start: p.stop() raises
\* rs2::error, return 1 is not reached and the catch block of the loop
\* runs (a second stop(pipeline) when the budget is exceeded)
StopRaisedInTry ==
  /\ tries' = tries + 1
  /\ UNCHANGED << success, started >>
  /\ IF Exhausted(tries + 1)
     THEN /\ stop_calls' = stop_calls + 2
          /\ stop_raised' = stop_raised + 2
          /\ Exit(1, "retry")
     ELSE /\ stop_calls' = stop_calls + 1
          /\ stop_raised' = stop_raised + 1
          /\ UNCHANGED << pc, exit_code, cause >>

\* one pass of the laser power retry loop: get_option_range, set_option to
\* the maximum, get_option.  "error": one of the three calls raises;
\* "max": all return and the value read back is the maximum; "other": all
\* return and the value read back differs
CfgLaserTry ==
  /\ pc = "cfg_laser"
  /\ \E res \in {"max", "other", "error"} :
        /\ res = "other" => stop_raised < MaxMismatch
        /\ ops' = Append(ops, << "cfg_laser", res >>)
        /\ CASE res = "max" ->
                  /\ success' = SuccessOnReturn
                  /\ IF SuccessOnReturn
                     THEN AdvanceSensor
                     ELSE UNCHANGED << s, pc >>
                  /\ UNCHANGED << tries, procVars >>
             [] res = "other" ->
                  /\ StopRaisedInTry
                  /\ UNCHANGED s
             [] res = "error" ->
                  /\ RetryCatch
                  /\ UNCHANGED s
  /\ UNCHANGED << traceVars, copyVars,
                  deviceVars, got_sigint, enabled_preset, clockVars,
                  frames_got, frameVars, fpsVars >>

\* after the sensor loop: STDepthControlGroup gr; ... success = false;
\* tries = 0;
CfgDepthBegin ==
  /\ pc = "cfg_depth_begin"
  /\ ops' = << >>
  /\ success' = FALSE
  /\ tries' = 0
  /\ pc' = "cfg_depth"
  /\ UNCHANGED << traceVars, copyVars,
                  deviceVars, got_sigint, procVars, s, enabled_preset,
                  clockVars, frames_got, frameVars, fpsVars >>

\* adv.set_depth_control(gr) in its retry loop
CfgDepthTry ==
  /\ pc = "cfg_depth"
  /\ RetryPass("cfg_depth", "start")
  /\ UNCHANGED << traceVars, copyVars,
                  deviceVars, got_sigint, s, enabled_preset, clockVars,
                  frames_got, frameVars, fpsVars >>

\* rs2::pipeline_profile prof = pipeline.start(conf); and the declarations
\* before while (true).  The clock is counted from the reading stored in
\* t_since_toggle here.
PipelineStart ==
  /\ pc = "start"
  /\ ops' = << >>
  /\ \/ /\ Uncaught("start")
        /\ UNCHANGED << clockVars, ftimes, dur_sum >>
     \/ /\ started' = TRUE
        /\ pc' = "loop_top"
        /\ ftimes' = << >>
        /\ dur_sum' = 0
        /\ now' = 0
        /\ t_since_toggle' = 0
        /\ next_toggle' = InitialToggle
        /\ UNCHANGED << stop_calls, stop_raised, exit_code, cause, t1, t2 >>
  /\ UNCHANGED << traceVars, copyVars,
                  deviceVars, got_sigint, s, retryVars, enabled_preset,
                  frames_got, frameVars, avg_dur, avg_fps, durs >>

----------------------------------------------------------------------------
(* Signal handler *)

\* sigint_handler: got_sigint = true, at any point of the run
sigint_handler ==
  /\ pc # "done"
  /\ got_sigint = FALSE
  /\ got_sigint' = TRUE
  /\ UNCHANGED << traceVars, copyVars,
                  deviceVars, pc, procVars, s, retryVars, enabled_preset,
                  clockVars, frames_got, frameVars, fpsVars, ops >>

----------------------------------------------------------------------------
(* Capture loop *)

\* mutant of Cancelled: the flag is not looked at
CancelledNever == FALSE

\* if (got_sigint)
Cancelled == got_sigint

\* top of while (true): t1 = now(); if (got_sigint) break;
LoopTop ==
  /\ pc = "loop_top"
  /\ t1' = now
  /\ pc' = IF Cancelled THEN "exit_loop" ELSE "wait"
  /\ cause' = IF Cancelled THEN "sigint" ELSE cause
  /\ UNCHANGED << traceVars, copyVars,
                  deviceVars, got_sigint, started, stop_calls,
                  stop_raised, exit_code,
                  s, retryVars,
                  enabled_preset, now, t2, t_since_toggle, next_toggle,
                  frames_got, frameVars, fpsVars, ops >>

\* rs2::frameset frames = pipeline.wait_for_frames(3000): a frame set, or
\* rs2::error when none arrives within the timeout, which only the handler
\* of main's function-try-block catches
WaitForFrames ==
  /\ pc = "wait"
  /\ frames_got < MaxFrames
  /\ \/ /\ Uncaught("timeout")
        /\ UNCHANGED << frames, fi, got_depth, got_color >>
     \/ /\ frames' \in FrameSets
        /\ fi' = 1
        /\ got_depth' = FALSE
        /\ got_color' = FALSE
        /\ pc' = "frames"
        /\ UNCHANGED procVars
  /\ UNCHANGED << traceVars, copyVars,
                  deviceVars, got_sigint, s, retryVars, enabled_preset,
                  clockVars, frames_got, depthbuf, colorbuf, fpsVars, ops >>

\* mutant of Mismatch: only the width is compared
MismatchWidthOnly(f) ==
  IF f.kind = "depth" THEN f.w # depth_w ELSE f.w # color_w

\* if (d_width != depth_w || d_height != depth_h), and the same for color
Mismatch(f) ==
  IF f.kind = "depth"
  THEN f.w # depth_w \/ f.h # depth_h
  ELSE f.w # color_w \/ f.h # color_h

\* mutant of CopyBytes: the size of the color payload for every frame
CopyBytesColorOnly(f) == color_w * color_h * 3

\* memcpy(depthbuf, depthdata, depth_w * depth_h * sizeof(uint16_t)) and
\* memcpy(colorbuf, colordata, color_w * color_h * 3): the number of bytes
\* written, from the configured resolution and not from the frame
CopyBytes(f) ==
  IF f.kind = "depth" THEN depth_w * depth_h * 2 ELSE color_w * color_h * 3

\* one pass of for (auto&& f : frames): a frame of the wrong resolution
\* ends the run with stop(pipeline); return 1; otherwise the payload is
\* copied and the modality marked
ProcessFrame ==
  /\ pc = "frames"
  /\ fi <= Len(frames)
  /\ LET f == frames[fi]
     IN IF Mismatch(f)
        THEN /\ StopAndReturn(1, "mismatch")
             /\ UNCHANGED << fi, got_depth, got_color, depthbuf, colorbuf,
                             copyVars >>
        ELSE /\ fi' = fi + 1
             /\ IF f.kind = "depth"
                THEN /\ depthbuf' = frames_got + 1
                     /\ depth_bytes' = CopyBytes(f)
                     /\ got_depth' = TRUE
                     /\ UNCHANGED << colorbuf, color_bytes, got_color >>
                ELSE /\ colorbuf' = frames_got + 1
                     /\ color_bytes' = CopyBytes(f)
                     /\ got_color' = TRUE
                     /\ UNCHANGED << depthbuf, depth_bytes, got_depth >>
             /\ UNCHANGED << pc, procVars >>
  /\ UNCHANGED << traceVars,
                  deviceVars, got_sigint, s, retryVars, enabled_preset,
                  clockVars, frames_got, frames, fpsVars, ops >>

\* mutant of ToggleDue: the sweep fires in every iteration
ToggleDueAlways(t, since, interval) == TRUE

\* if (toggle > next_toggle)
ToggleDue(t, since, interval) == t - since > interval

\* mutant of NextInterval: the interval is left as it is
NextIntervalSame(interval) == interval

\* next_toggle = next_toggle + 10000;
NextInterval(interval) == interval + ToggleStep

\* mutant of PairMissing: the frame set is never found incomplete
PairMissingNever(gc, gd) == FALSE

\* if (!got_color || !got_depth)
PairMissing(gc, gd) == ~gc \/ ~gd

\* after the for loop: if (!got_color || !got_depth) break; frames_got++;
\* t2 = now(); and the firing test of the tuning sweep
CheckPair ==
  /\ pc = "frames"
  /\ fi > Len(frames)
  /\ frames' = << >>
  /\ fi' = 0
  /\ IF PairMissing(got_color, got_depth)
     THEN /\ pc' = "exit_loop"
          /\ cause' = "missing"
          /\ UNCHANGED << frames_got, clockVars, s, traceVars >>
     ELSE /\ frames_got' = frames_got + 1
          /\ \E d \in ClockDeltas :
                /\ now' = now + d
                /\ t2' = now + d
                /\ IF ToggleDue(now + d, t_since_toggle, next_toggle)
                   THEN /\ t_since_toggle' = now + d
                        /\ next_toggle' = NextInterval(next_toggle)
                        /\ firings' = Append(firings,
                                         [at |-> now + d,
                                          frame |-> frames_got + 1])
                        /\ visited' = << >>
                        /\ s' = 1
                        /\ pc' = "sweep"
                   ELSE /\ UNCHANGED << t_since_toggle, next_toggle, s,
                                        traceVars >>
                        /\ pc' = "fps"
          /\ UNCHANGED << t1, cause >>
  /\ UNCHANGED << copyVars,
                  deviceVars, got_sigint, started, stop_calls,
                  stop_raised, exit_code,
                  retryVars, enabled_preset, got_depth, got_color, depthbuf,
                  colorbuf, fpsVars, ops >>

----------------------------------------------------------------------------
(* Periodic tuning sweep: for (auto& s : sensors) *)

Call(op, res) == << op, res >>

\* std::this_thread::sleep_for after an SDK call that returned
Sleep(res, ms) == now' = IF res = "ok" THEN now + ms ELSE now

sweepFrame ==
  << traceVars, copyVars, deviceVars, got_sigint, procVars, s, retryVars, enabled_preset, t1, t2,
     t_since_toggle, next_toggle, frames_got, frameVars, fpsVars >>

\* the sensor list is exhausted: the sweep ends
SweepDone ==
  /\ pc = "sweep"
  /\ s > Len(sensors)
  /\ s' = 0
  /\ pc' = "fps"
  /\ UNCHANGED << traceVars, copyVars,
                  deviceVars, got_sigint, procVars, retryVars,
                  enabled_preset, clockVars, frames_got, frameVars, fpsVars,
                  ops >>

\* end of the loop body, also reached by continue: next sensor
SweepNext ==
  /\ pc = "sweep_end"
  /\ s' = s + 1
  /\ visited' = Append(visited, s)
  /\ ops' = << >>
  /\ pc' = "sweep"
  /\ UNCHANGED << firings, copyVars,
                  deviceVars, got_sigint, procVars, retryVars,
                  enabled_preset, clockVars, frames_got, frameVars, fpsVars >>

\* toggle program: a sensor is tuned only when it has all three of the
\* auto exposure option, the emitter option and the ROI interface
TunedByToggle(caps) == AE \in caps /\ EM \in caps /\ ROI \in caps

\* toggle program, capability test in its try block: continue when a
\* capability is missing or the test raises
TgCaps ==
  /\ pc = "sweep"
  /\ variant = "toggle"
  /\ s <= Len(sensors)
  /\ \E res \in {"ok", "error"} :
        /\ ops' = Append(ops, Call("supports", res))
        /\ pc' = IF res = "ok" /\ TunedByToggle(sensors[s])
                 THEN "tg_get1" ELSE "sweep_end"
  /\ UNCHANGED << sweepFrame, now >>

\* "Getting auto exposure state (1)": the disable step follows only when
\* the option reads non-zero
TgGet1 ==
  /\ pc = "tg_get1"
  /\ \E res \in {"0", "1", "error"} :
        /\ ops' = Append(ops, Call("get_ae", res))
        /\ pc' = IF res = "1" THEN "tg_off" ELSE "tg_on"
  /\ UNCHANGED << sweepFrame, now >>

\* s.set_option(RS2_OPTION_ENABLE_AUTO_EXPOSURE, 0.0f); sleep 3 s
TgOff ==
  /\ pc = "tg_off"
  /\ \E res \in {"ok", "error"} :
        /\ ops' = Append(ops, Call("set_ae_0", res))
        /\ Sleep(res, SleepAutoExposure)
  /\ pc' = "tg_on"
  /\ UNCHANGED sweepFrame

\* s.set_option(RS2_OPTION_ENABLE_AUTO_EXPOSURE, 1.0f); sleep 3 s
TgOn ==
  /\ pc = "tg_on"
  /\ \E res \in {"ok", "error"} :
        /\ ops' = Append(ops, Call("set_ae_1", res))
        /\ Sleep(res, SleepAutoExposure)
  /\ pc' = "tg_get2"
  /\ UNCHANGED sweepFrame

\* mutant of AfterReadback: an error of the readback ends the run
AfterReadbackFatal(res) ==
  CASE res = "0" -> "sweep_end"
    [] res = "1" -> "tg_roi"
    [] OTHER -> "done"

\* where the readback "Getting auto exposure state (2)" leads: 0 is
\* continue, an error skips the rest of the try block
AfterReadback(res) ==
  CASE res = "0" -> "sweep_end"
    [] res = "1" -> "tg_roi"
    [] OTHER -> "tg_em"

TgGet2 ==
  /\ pc = "tg_get2"
  /\ \E res \in {"0", "1", "error"} :
        /\ ops' = Append(ops, Call("get_ae", res))
        /\ pc' = AfterReadback(res)
  /\ UNCHANGED << sweepFrame, now >>

\* s.as<rs2::roi_sensor>().set_region_of_interest(ri); sleep 1 s
TgRoi ==
  /\ pc = "tg_roi"
  /\ \E res \in {"ok", "error"} :
        /\ ops' = Append(ops, Call("set_roi", res))
        /\ Sleep(res, SleepRoi)
  /\ pc' = "tg_em"
  /\ UNCHANGED sweepFrame

\* s.set_option(RS2_OPTION_EMITTER_ENABLED, 1.0f); sleep 1 s
TgEm ==
  /\ pc = "tg_em"
  /\ \E res \in {"ok", "error"} :
        /\ ops' = Append(ops, Call("set_emitter", res))
        /\ Sleep(res, SleepEmitter)
  /\ pc' = "sweep_end"
  /\ UNCHANGED sweepFrame

\* preset program: rs2::roi_sensor rois(s); rois.set_region_of_interest(ri);
\* on a sensor without the ROI interface the handle is empty and the call
\* raises.  An error skips the rest of the first try block.
PsRoi ==
  /\ pc = "sweep"
  /\ variant = "preset"
  /\ s <= Len(sensors)
  /\ \E res \in (IF Has(s, ROI) THEN {"ok", "error"} ELSE {"error"}) :
        /\ ops' = Append(ops, Call("set_roi", res))
        /\ pc' = IF res = "ok" THEN "ps_off" ELSE "ps_em"
  /\ UNCHANGED << sweepFrame, now >>

\* an option write guarded by if (s.supports(option)) within one try block:
\* nothing is written when the sensor lacks the option or supports() raises
GuardedWrite(cap, op, next) ==
  /\ \/ /\ ops' = Append(ops, Call("supports", "error"))
     \/ /\ ~Has(s, cap)
        /\ UNCHANGED ops
     \/ /\ Has(s, cap)
        /\ \E res \in {"ok", "error"} : ops' = Append(ops, Call(op, res))
  /\ pc' = next
  /\ UNCHANGED << sweepFrame, now >>

\* "Setting auto exposure off"
PsOff ==
  /\ pc = "ps_off"
  /\ GuardedWrite(AE, "set_ae_0", "ps_em")

\* "Enabling emitter"
PsEm ==
  /\ pc = "ps_em"
  /\ GuardedWrite(EM, "set_emitter", "ps_on")

\* "re-enable auto exposure"
PsOn ==
  /\ pc = "ps_on"
  /\ GuardedWrite(AE, "set_ae_1", "sweep_end")

----------------------------------------------------------------------------
(* Rolling FPS estimator *)

\* int / int of C++: the quotient is truncated toward zero
CDiv(a, b) ==
  IF a >= 0 THEN a \div b ELSE -((-a) \div b)

\* int / size_t of C++ (dur_sum / ftimes.size()): the int is converted to
\* the 64-bit unsigned type, the quotient is unsigned and is narrowed to int
\* (low 32 bits, two's complement).  A negative a stands for 2^64 + a, which
\* is divided here by long division on 16-bit limbs; -65536 < a.
UDivToInt(a, n) ==
  IF a >= 0
  THEN a \div n
  ELSE LET B  == 65536
           r1 == (B - 1) % n
           r2 == (r1 * B + (B - 1)) % n
           c3 == r2 * B + (B - 1)
           c4 == (c3 % n) * B + (B + a)
           q3 == c3 \div n
           q4 == c4 \div n
       IN IF q3 >= 32768 THEN (q3 - B) * B + q4 ELSE q3 * B + q4

\* mutant of Recorded: the duration is taken up to the end of the sweep
RecordedWithSweep(d) == IF now - t1 = 0 THEN 1 ELSE now - t1

\* if (dur_frame == 0) dur_frame = 1;
Recorded(d) == IF d = 0 THEN 1 ELSE d

\* ftimes.push_back(dur_frame); if (ftimes.size() > 100) { dur_sum -=
\* ftimes.front(); ftimes.pop_front(); }  dur_sum += dur_frame;
PushWindow(ft, sum, d) ==
  LET pushed == Append(ft, d)
  IN IF Len(pushed) > WindowCap
     THEN [ftimes |-> Tail(pushed), dur_sum |-> sum - Head(pushed) + d]
     ELSE [ftimes |-> pushed, dur_sum |-> sum + d]

\* if (dur_sum == 0) dur_sum = 1;   (after avg_dur has been computed)
FloorSum(sum) == IF sum = 0 THEN 1 ELSE sum

\* "calculate frame time", "calculate average fps".  1000 / avg_dur with
\* avg_dur = 0 is an integer division by zero: the process is killed by
\* SIGFPE where the division traps (exit status 128 + 8), and goes on with
\* some quotient where it does not.
Fps ==
  /\ pc = "fps"
  /\ LET d == Recorded(t2 - t1)
         w == PushWindow(ftimes, dur_sum, d)
         avg == UDivToInt(w.dur_sum, Len(w.ftimes))
     IN /\ ftimes' = w.ftimes
        /\ durs' = Append(durs, d)
        /\ avg_dur' = avg
        /\ dur_sum' = FloorSum(w.dur_sum)
        /\ IF avg # 0
           THEN /\ avg_fps' = CDiv(1000, avg)
                /\ pc' = "loop_top"
                /\ UNCHANGED procVars
           ELSE \/ /\ Exit(128 + 8, "fpe")
                   /\ UNCHANGED << avg_fps, started, stop_calls, stop_raised >>
                \/ /\ avg_fps' = 0
                   /\ pc' = "loop_top"
                   /\ cause' = "fpe"
                   /\ UNCHANGED << started, stop_calls, stop_raised, exit_code >>
  /\ UNCHANGED << traceVars, copyVars,
                  deviceVars, got_sigint, s, retryVars, enabled_preset,
                  clockVars, frames_got, frameVars, ops >>

\* after the loop: stop(pipeline); return 0;
ExitLoop ==
  /\ pc = "exit_loop"
  /\ StopAndReturn(0, cause)
  /\ UNCHANGED << traceVars, copyVars,
                  deviceVars, got_sigint, s, retryVars, enabled_preset,
                  clockVars, frames_got, frameVars, fpsVars, ops >>

----------------------------------------------------------------------------
Next ==
  \/ Setup
  \/ LoadJson
  \/ SelectPreset
  \/ CfgEmitterCheck
  \/ CfgEmitterTry
  \/ CfgLaserCheck
  \/ CfgLaserTry
  \/ CfgDepthBegin
  \/ CfgDepthTry
  \/ PipelineStart
  \/ sigint_handler
  \/ LoopTop
  \/ WaitForFrames
  \/ ProcessFrame
  \/ CheckPair
  \/ SweepDone
  \/ SweepNext
  \/ TgCaps
  \/ TgGet1
  \/ TgOff
  \/ TgOn
  \/ TgGet2
  \/ TgRoi
  \/ TgEm
  \/ PsRoi
  \/ PsOff
  \/ PsEm
  \/ PsOn
  \/ Fps
  \/ ExitLoop

Spec == Init /\ [][Next]_vars

----------------------------------------------------------------------------
(* Helpers of the properties *)

RECURSIVE SumSeq(_)
SumSeq(q) == IF q = << >> THEN 0 ELSE Head(q) + SumSeq(Tail(q))

Min2(a, b) == IF a <= b THEN a ELSE b
Max2(a, b) == IF a >= b THEN a ELSE b

\* the last k elements of q, in order
LastN(q, k) == SubSeq(q, Len(q) - k + 1, Len(q))

Results(q) == { q[i][2] : i \in 1..Len(q) }
OpNames(q) == { q[i][1] : i \in 1..Len(q) }
\* every attempt ended in the catch block ("other": through the stop that
\* raised)
AllErrors(q) == \A i \in 1..Len(q) : q[i][2] \in {"error", "other"}

\* calls of stop(pipeline) that stopped the pipeline
PipelineStops == stop_calls - stop_raised

Exited == pc = "done"

RetryPcs == {"cfg_emitter", "cfg_laser", "cfg_depth"}
\* the names under which ops records the attempts of the three startup steps
RetryOps == RetryPcs

SweepPcs ==
  {"sweep", "sweep_end", "tg_get1", "tg_off", "tg_on", "tg_get2", "tg_roi",
   "tg_em", "ps_off", "ps_em", "ps_on"}

----------------------------------------------------------------------------
(* C1 *)

\* C1: after the n-th update (n >= 1) the window holds the last min(n, C)
\* recorded durations in arrival order, dur_sum is the sum of the window,
\* and the reported average is that sum divided by min(n, C), at least 1.
C1_WindowSumAverage ==
  Len(durs) >= 1 =>
    LET k == Min2(Len(durs), WindowCap)
    IN /\ ftimes = LastN(durs, k)
       /\ dur_sum = SumSeq(ftimes)
       /\ avg_dur = Max2(SumSeq(ftimes) \div k, 1)

----------------------------------------------------------------------------
(* C2 *)

\* C2: every duration put in the window is at least 1, the window is not
\* empty when dur_sum is divided by its size, avg_dur is at least 1 in
\* every iteration, and 1000 / avg_dur never divides by zero.
C2_NoDivisionByZero ==
  /\ \A i \in 1..Len(durs) : durs[i] >= 1
  /\ Len(durs) >= 1 => (Len(ftimes) >= 1 /\ avg_dur >= 1)
  /\ cause # "fpe"

----------------------------------------------------------------------------
(* C3 *)

\* position of the first call of op in q, 0 when there is none
FirstCall(q, op) ==
  IF op \in OpNames(q)
  THEN CHOOSE i \in 1..Len(q) :
         /\ q[i][1] = op
         /\ \A j \in 1..(i - 1) : q[j][1] # op
  ELSE 0

\* the auto exposure readback made right after the re-enable step returned
\* a non-zero value
ReadbackEnabled(q) ==
  \E i \in 1..(Len(q) - 1) :
     /\ q[i][1] = "set_ae_1"
     /\ q[i + 1] = << "get_ae", "1" >>

\* ... and was made before position j
ReadbackEnabledBefore(q, j) ==
  \E i \in 1..(j - 2) :
     /\ q[i][1] = "set_ae_1"
     /\ q[i + 1] = << "get_ae", "1" >>

\* C3: in every sweep and for every sensor, set_region_of_interest is
\* attempted if and only if the auto exposure readback taken right after
\* the re-enable step of that sensor returned non-zero; never when the
\* readback returned 0 or was not made.
C3_RoiIffReadbackEnabled ==
  /\ "set_roi" \in OpNames(ops) =>
        ReadbackEnabledBefore(ops, FirstCall(ops, "set_roi"))
  /\ pc = "sweep_end" => ("set_roi" \in OpNames(ops) <=> ReadbackEnabled(ops))

----------------------------------------------------------------------------
(* C4 *)

\* C4: a startup step whose SDK call fails 6 times in a row has made
\* exactly 5 retries, does not retry the 6th failure, ends the process with
\* a non-zero code, and pipeline start and the capture loop are not reached;
\* the counter of each step starts at 0.
C4_RetryExhaustionFatal ==
  /\ pc \in RetryPcs => (AllErrors(ops) /\ tries = Len(ops) /\ ~success)
  /\ (OpNames(ops) \subseteq RetryOps /\ AllErrors(ops)) => Len(ops) <= 6
  /\ (OpNames(ops) \subseteq RetryOps /\ AllErrors(ops) /\ Len(ops) = 6) =>
        (Exited /\ cause = "retry")
  /\ (Exited /\ cause = "retry") =>
        /\ Len(ops) = 6
        /\ AllErrors(ops)
        /\ tries = 6
        /\ exit_code # 0
        /\ ~started
        /\ frames_got = 0

\* the laser power step has failed 6 times and the run has ended
C4_Witness ==
  /\ Exited
  /\ cause = "retry"
  /\ ops = [i \in 1..6 |-> << "cfg_laser", "error" >>]

----------------------------------------------------------------------------
(* C5 *)

\* the last call of the running startup step
LastOp == ops[Len(ops)]

\* where the run stands right after a startup step has succeeded
AfterStep(op) ==
  CASE op = "cfg_emitter" -> {"cfg_laser_check"}
    [] op = "cfg_laser" -> {"cfg_emitter_check", "cfg_depth_begin"}
    [] op = "cfg_depth" -> {"start"}
    [] OTHER -> {}

\* the calls of the step so far: k <= 5 failures, then one call that
\* returned as its last
FailuresThenOne ==
  /\ Len(ops) <= RetryBudget + 1
  /\ AllErrors(SubSeq(ops, 1, Len(ops) - 1))

StepSucceeded ==
  /\ success
  /\ ~Exited
  /\ exit_code = -1
  /\ PipelineStops = 0
  /\ pc \in AfterStep(LastOp[1])
  /\ FailuresThenOne

\* C5 as stated: in each startup step, once the SDK call has failed k <= 5
\* times and then returned, the step is a success, nothing is aborted, the
\* call is not made again and configuration goes on to the next step.
C5_SuccessWithinBudget_Original ==
  (ops # << >> /\ LastOp[1] \in RetryOps /\ LastOp[2] # "error") =>
     StepSucceeded

\* C5 amended: the same, where for the laser power step "returned" also
\* requires the value read back to equal the maximum of the range.
C5_SuccessWithinBudget ==
  (ops # << >> /\ LastOp[1] \in RetryOps /\ LastOp[2] \in {"ok", "max"}) =>
     StepSucceeded

\* depth control failed 5 times, succeeded on the 6th attempt, and the run
\* stands at pipeline start
C5_Witness ==
  /\ pc = "start"
  /\ Len(ops) = 6
  /\ LastOp = << "cfg_depth", "ok" >>
  /\ tries = 5

----------------------------------------------------------------------------
(* C6 *)

\* C6: in both programs an rs2::error raised inside a tuning sweep does not
\* end the capture loop, stop the pipeline or set an exit code: the next
\* step of the program is the next step of the sweep, or the FPS update
\* from which the loop returns to the frame wait.
C6_SweepErrorsNonFatal ==
  [][ (pc \in SweepPcs /\ pc' # pc) =>
        /\ pc' \in SweepPcs \cup {"fps"}
        /\ UNCHANGED << started, stop_calls, stop_raised, exit_code, cause,
                       frames_got >>
        /\ started
        /\ pc' = "fps" => s > Len(sensors) ]_vars

\* a sensor of the sweep has been processed with a failed SDK call
C6_Witness ==
  /\ pc = "sweep_end"
  /\ << "set_emitter", "error" >> \in { ops[i] : i \in 1..Len(ops) }
  /\ exit_code = -1
  /\ stop_calls = 0

----------------------------------------------------------------------------
(* C7 *)

\* C7: once the pipeline has been started, every way the capture loop ends
\* (cancellation, resolution mismatch, missing modality, frame wait
\* timeout) calls pipeline stop before the process exits.
C7_StopOnEveryLoopEnd ==
  (Exited /\ started /\ cause \in {"sigint", "mismatch", "missing", "timeout"})
     => PipelineStops >= 1

----------------------------------------------------------------------------
(* C8 *)

\* C8: a frame set that lacks the depth or the color frame ends the loop,
\* the pipeline is stopped and the process exits with a non-zero code.
C8_MissingModalityFatal ==
  /\ (pc = "exit_loop" /\ cause = "missing") => PipelineStops = 0
  /\ (Exited /\ cause = "missing") => (PipelineStops = 1 /\ exit_code # 0)

----------------------------------------------------------------------------
(* C9 *)

\* the frame does not have the configured resolution
WrongResolution(f) ==
  \/ f.kind = "depth" /\ << f.w, f.h >> # << 640, 480 >>
  \/ f.kind = "color" /\ << f.w, f.h >> # << 960, 540 >>

\* C9: a depth frame that is not 640x480 or a color frame that is not
\* 960x540 ends the loop in that iteration: no frame of the set after it is
\* handled, pipeline stop is called, the exit code is non-zero, the frame's
\* payload is not copied and frames_got is not incremented.
C9_MismatchFatal ==
  /\ pc = "frames" => \A j \in 1..(fi - 1) : ~WrongResolution(frames[j])
  /\ (pc \in {"frames", "done"} /\ fi \in 1..Len(frames)
        /\ WrongResolution(frames[fi])) =>
        /\ frames_got = Len(durs)
        /\ IF frames[fi].kind = "depth"
           THEN depthbuf # frames_got + 1
           ELSE colorbuf # frames_got + 1
  /\ cause = "mismatch" =>
        /\ Exited
        /\ exit_code # 0
        /\ PipelineStops = 1
        /\ fi \in 1..Len(frames)
        /\ WrongResolution(frames[fi])
  /\ (Exited /\ fi \in 1..Len(frames)) => cause = "mismatch"

\* the depth frame was copied, the color frame that followed it had the
\* wrong height, and the run has ended
C9_Witness ==
  /\ Exited
  /\ cause = "mismatch"
  /\ fi = 2
  /\ frames[2] = Frame("color", 960, 539)
  /\ depthbuf = frames_got + 1
  /\ frames_got = 1

----------------------------------------------------------------------------
(* C10 *)

\* C10: the handler only sets got_sigint; the flag is read at the top of an
\* iteration only: an iteration in progress (frame wait, frame handling,
\* the whole sweep) is never cut short by it; at the next top of the loop
\* the loop is left without another frame wait, the pipeline is stopped and
\* the exit code is 0.
C10_CooperativeCancel ==
  [][ /\ got_sigint' # got_sigint =>
           /\ got_sigint'
           /\ UNCHANGED << deviceVars, pc, procVars, s, retryVars,
                           enabled_preset, clockVars, frames_got, frameVars,
                           fpsVars, ops >>
      /\ (pc = "loop_top" /\ pc' # pc) =>
           IF got_sigint
           THEN pc' = "exit_loop" /\ cause' = "sigint"
           ELSE pc' = "wait" /\ cause' = cause
      /\ (cause' = "sigint" /\ cause # "sigint") => (pc = "loop_top" /\ got_sigint)
      /\ (pc' = "exit_loop" /\ pc # "exit_loop") =>
           \/ pc = "loop_top" /\ got_sigint
           \/ pc = "frames" /\ fi > Len(frames) /\ (~got_depth \/ ~got_color)
      /\ (pc = "sweep" /\ pc' = "fps") => s > Len(sensors)
      /\ (pc = "exit_loop" /\ cause = "sigint" /\ pc' # pc) =>
           /\ Exited'
           /\ stop_calls' = stop_calls + 1
           /\ exit_code' = 0 ]_vars

\* the signal arrived during a sweep after the first frame pair, and the
\* run has ended through the cancellation check
C10_Witness ==
  /\ Exited
  /\ cause = "sigint"
  /\ exit_code = 0
  /\ PipelineStops = 1
  /\ frames_got >= 1

----------------------------------------------------------------------------
(* C11 *)

\* C11: next_toggle starts at 3000 and after the k-th firing equals
\* 3000 + 10000 * k, changed at no other time; the clock reading at which a
\* firing begins lies more than the value next_toggle held since the
\* previous firing after the reading at which that previous firing began.
C11_IntervalGrowth ==
  /\ ~started => firings = << >>
  /\ started => next_toggle = 3000 + 10000 * Len(firings)
  /\ (started /\ firings # << >>) =>
        t_since_toggle = firings[Len(firings)].at
  /\ \A k \in 1..(Len(firings) - 1) :
        firings[k + 1].at - firings[k].at > 3000 + 10000 * k

\* the sweep has fired twice
C11_Witness ==
  /\ Len(firings) = 2
  /\ next_toggle = 23000
  /\ pc = "loop_top"

----------------------------------------------------------------------------
(* C12 *)

\* the step ends the frame handling of an iteration in which a full frame
\* pair was accepted and more than next_toggle has elapsed since
\* t_since_toggle
FiringStep ==
  /\ pc = "frames"
  /\ fi > Len(frames)
  /\ got_depth
  /\ got_color
  /\ frames_got' = frames_got + 1
  /\ t2' - t_since_toggle > next_toggle

\* C12: in an iteration where the elapsed time since t_since_toggle is not
\* greater than next_toggle, and in an iteration that ends before a full
\* frame pair was accepted, t_since_toggle and next_toggle are unchanged
\* and no capability test, option read, option write or ROI set is issued:
\* the tuning state changes and the sweep is entered only by a firing, and
\* sensor calls are made only inside a sweep.
C12_IdleIterationsUntouched ==
  [][ /\ (started /\ << t_since_toggle, next_toggle >>' #
                       << t_since_toggle, next_toggle >>) => FiringStep
      /\ (pc \notin SweepPcs /\ pc' \in SweepPcs) => FiringStep
      /\ (started /\ ops' # ops) => pc \in SweepPcs
      /\ (pc \notin SweepPcs /\ pc' \notin SweepPcs) =>
            UNCHANGED << firings, visited >> ]_vars

\* the first iteration fired, the second was idle and has reached the FPS
\* update with the tuning state of the first
C12_Witness ==
  /\ pc = "fps"
  /\ frames_got = 2
  /\ Len(firings) = 1
  /\ firings[1].frame = 1
  /\ next_toggle = 13000
  /\ ops = << >>

----------------------------------------------------------------------------
(* C13 *)

\* the capability a sweep call needs
Needs(op) ==
  CASE op \in {"get_ae", "set_ae_0", "set_ae_1"} -> AE
    [] op = "set_roi" -> ROI
    [] op = "set_emitter" -> EM
    [] OTHER -> "none"

\* C13: in every sweep, no option read, option write or ROI set is issued
\* to a sensor that does not advertise the capability the call needs.
C13_CapabilityGating ==
  (pc \in SweepPcs /\ s \in 1..Len(sensors)) =>
     \A i \in 1..Len(ops) :
        Needs(ops[i][1]) # "none" => Has(s, Needs(ops[i][1]))

----------------------------------------------------------------------------
(* C14 *)

\* the frame has the configured resolution of its stream
RightResolution(f) ==
  \/ f.kind = "depth" /\ f.w = 640 /\ f.h = 480
  \/ f.kind = "color" /\ f.w = 960 /\ f.h = 540

\* C14: a payload is copied into depthbuf or colorbuf only after the
\* frame's width and height were found equal to the configured resolution,
\* and the bytes copied (640*480*2 for depth, 960*540*3 for color) never
\* exceed the capacity the buffer was allocated with.
C14_BufferBoundedCopy ==
  /\ depth_bytes \in {0, 640 * 480 * 2}
  /\ color_bytes \in {0, 960 * 540 * 3}
  /\ depth_bytes <= depthbuf_capacity
  /\ color_bytes <= colorbuf_capacity
  /\ pc = "frames" =>
        /\ depthbuf = frames_got + 1 <=>
              \E j \in 1..(fi - 1) :
                 frames[j].kind = "depth" /\ RightResolution(frames[j])
        /\ colorbuf = frames_got + 1 <=>
              \E j \in 1..(fi - 1) :
                 frames[j].kind = "color" /\ RightResolution(frames[j])
  /\ depthbuf # 0 <=> depth_bytes # 0
  /\ colorbuf # 0 <=> color_bytes # 0

\* both payloads of the second frame set have been copied
C14_Witness ==
  /\ pc = "frames"
  /\ fi = 3
  /\ depthbuf = 2
  /\ colorbuf = 2
  /\ depth_bytes = 614400
  /\ color_bytes = 1555200

----------------------------------------------------------------------------
(* C15 *)

\* the frame set holds a depth frame and a color frame of the configured
\* resolution
ValidPair(fs) ==
  /\ \E j \in 1..Len(fs) : fs[j].kind = "depth" /\ RightResolution(fs[j])
  /\ \E j \in 1..Len(fs) : fs[j].kind = "color" /\ RightResolution(fs[j])

\* iterations that have accepted a frame pair: those whose FPS update is
\* done, and the one that is between its increment and its FPS update
AcceptedPairs ==
  Len(durs) + (IF pc \in SweepPcs \cup {"fps"} THEN 1 ELSE 0)

\* C15: frames_got starts at 0, never decreases, is incremented by exactly 1
\* in each iteration in which both a valid depth frame and a valid color
\* frame were received, is changed in no other iteration nor by a sweep, and
\* always equals the number of frame pairs accepted so far.
C15_FrameCounter ==
  /\ frames_got = 0
  /\ [](frames_got = AcceptedPairs)
  /\ [][ /\ frames_got' # frames_got =>
              /\ frames_got' = frames_got + 1
              /\ pc = "frames"
              /\ fi > Len(frames)
              /\ ValidPair(frames)
         /\ (pc = "frames" /\ fi > Len(frames) /\ pc' # pc) =>
              IF ValidPair(frames)
              THEN frames_got' = frames_got + 1
              ELSE frames_got' = frames_got /\ pc' = "exit_loop" ]_vars

\* two pairs were accepted, then a frame set without the color frame ended
\* the loop with the counter at 2
C15_Witness ==
  /\ pc = "exit_loop"
  /\ cause = "missing"
  /\ frames_got = 2

----------------------------------------------------------------------------
(* C16 *)

\* number of calls of op in q
RECURSIVE Count(_, _)
Count(q, op) ==
  IF q = << >> THEN 0
  ELSE (IF Head(q)[1] = op THEN 1 ELSE 0) + Count(Tail(q), op)

\* no capability test of the sensor's loop body has raised
TestsReturned == << "supports", "error" >> \notin { ops[i] : i \in 1..Len(ops) }

\* the sweep works on the sensor: in the toggle program it has passed the
\* capability test, in the preset program every sensor is worked on
Processed ==
  variant = "toggle" => (ops # << >> /\ TunedByToggle(sensors[s]))

\* C16: in every sweep, for each sensor that advertises the emitter option
\* and is processed by the sweep, set_option(EMITTER_ENABLED, 1) is
\* attempted exactly once, whatever the earlier steps for that sensor gave.
C16_EmitterAlwaysAttempted ==
  /\ (pc \in SweepPcs /\ s \in 1..Len(sensors)) =>
        Count(ops, "set_emitter") <= 1
  /\ (pc = "sweep_end" /\ Has(s, EM) /\ Processed /\ TestsReturned) =>
        Count(ops, "set_emitter") = 1

----------------------------------------------------------------------------
(* C17 *)

\* C17: capabilities are checked per mutation: a sensor that advertises
\* only some of the auto exposure option, the emitter option and the ROI
\* interface still has the mutations it supports attempted in each sweep:
\* the emitter enable of a sensor without the ROI interface, the auto
\* exposure re-enable of a sensor without the emitter option.
C17_PerMutationPolicy ==
  (pc = "sweep_end" /\ TestsReturned) =>
     /\ (Has(s, EM) /\ ~Has(s, ROI)) => "set_emitter" \in OpNames(ops)
     /\ (Has(s, AE) /\ ~Has(s, EM)) => "set_ae_1" \in OpNames(ops)

----------------------------------------------------------------------------
(* C18 *)

\* the running iteration is one in which the sweep fired
FiredThisIteration ==
  /\ firings # << >>
  /\ firings[Len(firings)].frame = frames_got
  /\ pc \in SweepPcs \cup {"fps"}

Mutations == {"set_ae_0", "set_ae_1", "set_roi", "set_emitter"}

----------------------------------------------------------------------------
(* C19 *)

\* C19: in the preset program, when the current preset is not the desired
\* one and the desired description is that of a value v of the range
\* [min, max], v = max included, the search finds v, sets the option to v,
\* marks the preset as enabled, and startup goes on instead of exiting
\* with code 1.
C19_PresetSearchCoversRange ==
  (variant = "preset" /\ pc \notin {"setup", "preset"}
     /\ FirstPresetSensor # 0 /\ preset.want \in 0..PresetMax
     /\ cause \notin {"setup", "sdk"}) =>
     /\ enabled_preset
     /\ preset.cur = preset.want
     /\ cause # "preset"

----------------------------------------------------------------------------
(* C20 *)

\* C20: pipeline stop is called only when pipeline start has succeeded, and
\* at most once in a run; no path of either program calls stop on a
\* pipeline that was never started.
C20_StopOnlyAfterStart ==
  /\ stop_calls <= 1
  /\ stop_calls >= 1 => started

----------------------------------------------------------------------------
(* C21 *)

\* the auto exposure writes among the calls q, in order
RECURSIVE AeWrites(_)
AeWrites(q) ==
  IF q = << >> THEN << >>
  ELSE IF Head(q)[1] \in {"set_ae_0", "set_ae_1"}
       THEN << Head(q)[1] >> \o AeWrites(Tail(q))
       ELSE AeWrites(Tail(q))

\* C21: in both programs, for every sensor on which a sweep attempts an
\* auto exposure write, the last such write attempted before the sweep
\* moves to the next sensor is the enable write: a disable write is always
\* followed by an enable write attempt, also when the disable raised.
C21_LastAeWriteIsEnable ==
  (pc = "sweep_end" /\ AeWrites(ops) # << >>) =>
     AeWrites(ops)[Len(AeWrites(ops))] = "set_ae_1"

----------------------------------------------------------------------------
(* C22 *)

\* C22: in the preset program pipeline start is reached only if the last
\* laser power readback of every sensor with the laser power option
\* equalled the maximum of the range; a readback that differs ends the run
\* with exit code 1 at once, without a retry, whatever the value of the
\* retry counter.
C22_LaserPowerPostcondition ==
  /\ (ops # << >> /\ LastOp[1] = "cfg_laser"
        /\ pc \in {"cfg_emitter_check", "cfg_depth_begin"}) =>
        LastOp[2] = "max"
  /\ (ops # << >> /\ LastOp = << "cfg_laser", "other" >>) =>
        (Exited /\ exit_code = 1 /\ Len(ops) = tries + 1)

----------------------------------------------------------------------------
(* C23 *)

\* the steps that read the clock and record a duration, where the FPS
\* update appends d: t1 is read at the top of the iteration, after the
\* sweep of the one before; t2 is read before the sweep and the sweep
\* leaves both alone; the sweep appends nothing to the window
DurationSteps(d) ==
  /\ (pc = "fps" /\ pc' # pc) =>
        /\ durs' = Append(durs, d)
        /\ ftimes'[Len(ftimes')] = d
  /\ (pc = "loop_top" /\ pc' # pc) => t1' = now
  /\ t1' # t1 => pc = "loop_top"
  /\ (pc = "frames" /\ pc' \in {"sweep", "fps"}) => (t2' = now' /\ now = t1)
  /\ (started /\ t2' # t2) => pc = "frames"
  /\ pc \in SweepPcs =>
        /\ UNCHANGED << t1, t2, ftimes, durs >>
        /\ now' >= now
        /\ t2 = firings[Len(firings)].at

\* C23 as stated: the duration appended to the FPS window is t2 - t1, with
\* t2 read before the sweep and the next t1 after it, so that no recorded
\* duration holds time spent in a sweep.
C23_SweepTimeExcluded_Original ==
  [][DurationSteps(t2 - t1)]_vars

\* C23 amended: the same, where the duration appended is t2 - t1, or 1 when
\* t2 - t1 is 0.
C23_SweepTimeExcluded ==
  [][DurationSteps(IF t2 - t1 = 0 THEN 1 ELSE t2 - t1)]_vars

\* an iteration fired, its sweep slept 8 s in all, and its FPS update has
\* recorded the 3001 ms between t1 and t2
C23_Witness ==
  /\ pc = "loop_top"
  /\ firings # << >>
  /\ firings[Len(firings)].frame = frames_got
  /\ Len(durs) = frames_got
  /\ t2 - t1 = 3001
  /\ now - t2 = 8000
  /\ durs[Len(durs)] = 3001

====
